---- MODULE Spec2Model ----
(***************************************************************************)
(* grlx-lsp: the include scanner, the document index and the dispatch loop *)
(* of src/src/main.rs.                                                     *)
(*                                                                         *)
(* A Rust string is a sequence of one-character strings, so every parser   *)
(* works on characters as the code does; a PathBuf is the sequence of its  *)
(* components.  Option values are records [some |-> BOOLEAN, val |-> ...], *)
(* nom results are records [ok |-> BOOLEAN, rest |-> ..., out |-> ...].    *)
(***************************************************************************)
EXTENDS Integers, Sequences, FiniteSets, TLC

(***************************************************************************)
(* Characters and literals                                                 *)
(***************************************************************************)
AlphaNumeric ==
    {"a","b","c","d","e","f","g","h","i","j","k","l","m","n","o","p","q","r",
     "s","t","u","v","w","x","y","z","0","1","2","3","4","5","6","7","8","9"}

\* nom's is_multispace: space, tab, carriage return, line feed
MultiSpace == {" ", "\t", "\r", "\n"}

IncludeMarker == <<"i","n","c","l","u","d","e",":">>
StepsMarker == <<"s","t","e","p","s",":">>
GrlxExt == <<".","g","r","l","x">>
InitGrlx == <<"i","n","i","t",".","g","r","l","x">>

None == [some |-> FALSE]
Some(v) == [some |-> TRUE, val |-> v]

(***************************************************************************)
(* str helpers                                                             *)
(***************************************************************************)
StartsWith(s, p) == Len(s) >= Len(p) /\ SubSeq(s, 1, Len(p)) = p

\* number of leading characters of s that lie in S
PrefixLen(s, S) ==
    CHOOSE n \in 0..Len(s) :
        /\ \A i \in 1..n : s[i] \in S
        /\ (n = Len(s) \/ s[n + 1] \notin S)

Drop(s, n) == SubSeq(s, n + 1, Len(s))

\* position of the first character of s that lies in S, 0 when there is none
FirstIn(s, S) ==
    IF \E i \in 1..Len(s) : s[i] \in S
    THEN CHOOSE i \in 1..Len(s) : s[i] \in S /\ \A j \in 1..(i - 1) : s[j] \notin S
    ELSE 0

\* str::lines: split at "\n", a final empty piece is dropped, a "\r" right
\* before the "\n" is not part of the line
RECURSIVE StrLines(_)
StrLines(s) ==
    IF s = <<>> THEN <<>>
    ELSE LET nl == FirstIn(s, {"\n"})
             raw == IF nl = 0 THEN s ELSE SubSeq(s, 1, nl - 1)
             line == IF nl # 0 /\ raw # <<>> /\ raw[Len(raw)] = "\r"
                     THEN SubSeq(raw, 1, Len(raw) - 1) ELSE raw
         IN IF nl = 0 THEN <<line>> ELSE <<line>> \o StrLines(Drop(s, nl))

(***************************************************************************)
(* nom combinators used by the two line parsers                            *)
(***************************************************************************)
Err == [ok |-> FALSE]
Ok(rest, out) == [ok |-> TRUE, rest |-> rest, out |-> out]

\* nom::character::complete::not_line_ending
not_line_ending(input) ==
    LET index == FirstIn(input, {"\r", "\n"})
    IN IF index = 0 THEN Ok(<<>>, input)
       ELSE IF input[index] = "\r"
            THEN IF index < Len(input) /\ input[index + 1] = "\n"
                 THEN Ok(Drop(input, index - 1), SubSeq(input, 1, index - 1))
                 ELSE Err
            ELSE Ok(Drop(input, index - 1), SubSeq(input, 1, index - 1))

\* nom::character::complete::multispace1
multispace1(input) ==
    LET n == PrefixLen(input, MultiSpace)
    IN IF n = 0 THEN Err ELSE Ok(Drop(input, n), SubSeq(input, 1, n))

\* nom::character::complete::alphanumeric1
alphanumeric1(input) ==
    LET n == PrefixLen(input, AlphaNumeric)
    IN IF n = 0 THEN Err ELSE Ok(Drop(input, n), SubSeq(input, 1, n))

\* count(char(' '), 2) then tag("-")
TwoSpacesDash(input) ==
    IF Len(input) >= 3 /\ input[1] = " " /\ input[2] = " " /\ input[3] = "-"
    THEN Ok(Drop(input, 3), <<"-">>)
    ELSE Err

parse_include_line(input) ==
    LET head == TwoSpacesDash(input)
    IN IF ~head.ok THEN Err
       ELSE LET ws == multispace1(head.rest)
            IN IF ~ws.ok THEN Err ELSE not_line_ending(ws.rest)

\* a parse_current that never recognises the dot shorthand
parse_current_never(input) == Ok(input, None)

\* opt(preceded(char('.'), terminated(alphanumeric1, not_line_ending))):
\* always Ok; out is Some(run) or None
parse_current(input) ==
    IF input # <<>> /\ input[1] = "."
    THEN LET run == alphanumeric1(Drop(input, 1))
         IN IF ~run.ok THEN Ok(input, None)
            ELSE LET tail == not_line_ending(run.rest)
                 IN IF ~tail.ok THEN Ok(input, None)
                    ELSE Ok(tail.rest, Some(run.out))
    ELSE Ok(input, None)

(***************************************************************************)
(* std::path.  A Path compares by its components, so a PathBuf is the      *)
(* record [abs |-> has a root, comps |-> its components]; the characters   *)
(* of an OS string become a path in PathFromStr.                           *)
(***************************************************************************)
Slash == <<"/">>
DotDot == <<".", ".">>

\* the pieces of s between separators, empty pieces included
RECURSIVE SplitSlash(_)
SplitSlash(s) ==
    LET i == FirstIn(s, {"/"})
    IN IF i = 0 THEN <<s>>
       ELSE <<SubSeq(s, 1, i - 1)>> \o SplitSlash(Drop(s, i))

\* Path::components: repeated separators and "." pieces are dropped
PathFromStr(s) ==
    [abs |-> s # <<>> /\ s[1] = "/",
     comps |-> SelectSeq(SplitSlash(s), LAMBDA c : c # <<>> /\ c # <<".">>)]

\* PathBuf::join / push: an absolute argument replaces the base
PathJoin(base, p) ==
    IF p.abs THEN p ELSE [abs |-> base.abs, comps |-> base.comps \o p.comps]

\* Path::parent
PathParent(p) ==
    IF p.comps = <<>> THEN None
    ELSE Some([abs |-> p.abs, comps |-> SubSeq(p.comps, 1, Len(p.comps) - 1)])

\* Path::file_name
PathFileName(p) ==
    IF p.comps = <<>> \/ p.comps[Len(p.comps)] = DotDot THEN None
    ELSE Some(p.comps[Len(p.comps)])

\* position of the last "." of a name, 0 when there is none
LastDot(name) ==
    IF \E i \in 1..Len(name) : name[i] = "."
    THEN CHOOSE i \in 1..Len(name) :
             name[i] = "." /\ \A j \in (i + 1)..Len(name) : name[j] # "."
    ELSE 0

\* Path::file_stem
PathFileStem(p) ==
    LET fname == PathFileName(p)
    IN IF ~fname.some THEN None
       ELSE LET d == LastDot(fname.val)
            IN IF d <= 1 THEN Some(fname.val)
               ELSE Some(SubSeq(fname.val, 1, d - 1))

\* Path::display, for paths with a root
RECURSIVE JoinComponents(_)
JoinComponents(cs) ==
    IF cs = <<>> THEN <<>>
    ELSE IF Len(cs) = 1 THEN cs[1]
    ELSE cs[1] \o Slash \o JoinComponents(Tail(cs))

PathToStr(p) == (IF p.abs THEN Slash ELSE <<>>) \o JoinComponents(p.comps)

(***************************************************************************)
(* Reference scanner                                                       *)
(***************************************************************************)
\* format!("{}.grlx", module) joined to the base path
CandidatePath(base_path, module) ==
    PathJoin(base_path, PathFromStr(module \o GrlxExt))

\* the closure of filter_map: Some(path) for a line that yields an entry
IncludeEntry(line, base_path) ==
    LET parsed == parse_include_line(line)
    IN IF ~parsed.ok THEN None
       ELSE LET current == parse_current(parsed.out)
            IN IF current.ok /\ current.out.some
               THEN Some(CandidatePath(base_path, current.out.val))
               ELSE Some(CandidatePath(base_path, parsed.out))

\* a skip_while that skips nothing
SkipWhileNothing(ls) == IF ls = <<>> THEN 0 ELSE 1

\* 1-based index of the first line that skip_while lets through, 0 when none
SkipWhileStart(ls) ==
    IF \E i \in 1..Len(ls) : StartsWith(ls[i], IncludeMarker)
    THEN CHOOSE i \in 1..Len(ls) :
             /\ StartsWith(ls[i], IncludeMarker)
             /\ \A j \in 1..(i - 1) : ~StartsWith(ls[j], IncludeMarker)
    ELSE 0

\* 1-based index of the last line that take_while lets through
TakeWhileEnd(ls, start) ==
    IF \E i \in start..Len(ls) : StartsWith(ls[i], StepsMarker)
    THEN (CHOOSE i \in start..Len(ls) :
              /\ StartsWith(ls[i], StepsMarker)
              /\ \A j \in start..(i - 1) : ~StartsWith(ls[j], StepsMarker)) - 1
    ELSE Len(ls)

\* the HashMap<usize, PathBuf>: a function from 0-based line numbers to paths
parse_includes_map(input, base_path) ==
    LET ls == StrLines(input)
        start == SkipWhileStart(ls)
        window == IF start = 0 THEN {} ELSE start..TakeWhileEnd(ls, start)
        entry == [i \in window |-> IncludeEntry(ls[i], base_path)]
    IN [n \in {i - 1 : i \in {j \in window : entry[j].some}} |-> entry[n + 1].val]

(***************************************************************************)
(* Bounds and inputs                                                       *)
(***************************************************************************)
\* most references in the include section of a text the dispatch loop gets
MaxRefs == 1

\* longest text, in lines, handed to the scanner on its own
MaxLines == 3

NL == <<"\n">>
RefCurrent == <<" ", " ", "-", " ", ".", "a">>
RefParent == <<" ", " ", "-", " ", ".", ".", "/", "a">>

SeqsUpTo(S, n) == UNION {[1..k -> S] : k \in 0..n}

RECURSIVE TextOf(_)
TextOf(ls) == IF ls = <<>> THEN <<>> ELSE ls[1] \o NL \o TextOf(Tail(ls))

\* lsp_types::Url, reduced to its scheme and its path
FileScheme == <<"f", "i", "l", "e">>
DirW == <<"w">>
DirSub == <<"s", "u", "b">>
DocOne == [scheme |-> FileScheme,
           path |-> <<"/","w","/","o","n","e",".","g","r","l","x">>]
DocTwo == [scheme |-> FileScheme,
           path |-> <<"/","w","/","s","u","b","/","t","w","o",".","g","r","l","x">>]
DocUntitled == [scheme |-> <<"u","n","t","i","t","l","e","d">>,
                path |-> <<"U","n","t","i","t","l","e","d","-","1">>]
Docs == {DocOne, DocTwo, DocUntitled}

\* the documents that requests and close notifications name
FileDocs == {DocOne, DocTwo}

\* the texts the events of a document carry: an include marker followed by
\* at most MaxRefs references, or by one reference of each form, for DocOne;
\* by one reference for the others
MixedText == TextOf(<<IncludeMarker, RefCurrent, RefParent>>)
SectionTexts ==
    {TextOf(<<IncludeMarker>> \o refs) :
        refs \in SeqsUpTo({RefCurrent, RefParent}, MaxRefs)} \cup {MixedText}
ShortTexts == {TextOf(<<IncludeMarker, RefParent>>)}
TextsOf(doc) == IF doc = DocOne THEN SectionTexts ELSE ShortTexts

\* the text of a second content-change entry
SecondEntryText == TextOf(<<IncludeMarker, RefParent, RefCurrent>>)

\* the content_changes lists of a change event: empty, one entry, two entries
ChangesOne ==
    {<<>>} \cup {<<t>> : t \in SectionTexts}
           \cup {<<TextOf(<<IncludeMarker>>), SecondEntryText>>,
                 <<TextOf(<<IncludeMarker, RefCurrent>>), TextOf(<<IncludeMarker>>)>>}
ChangesShort == {<<>>} \cup {<<t>> : t \in ShortTexts}
ChangeLists(doc) == IF doc = DocOne THEN ChangesOne ELSE ChangesShort

RequestIds == {"r1", "r2"}

\* position.line of a definition request: the lines after the marker line,
\* one of them past the last reference of a text with MaxRefs references
RequestLines == 1..(MaxRefs + 1)

\* reference lines: a carriage return inside the reference text, a lone
\* dot, a dot shorthand followed by more text, a tab and no reference text,
\* a reference that starts at the root
RefLoneCR == <<" ", " ", "-", " ", "a", "\r", "b">>
RefDot == <<" ", " ", "-", " ", ".">>
RefTail == <<" ", " ", "-", " ", ".", "a", "/", "b">>
RefEmpty == <<" ", " ", "-", "\t">>
RefRoot == <<" ", " ", "-", " ", "/", "a">>

\* the lines of a text handed to the scanner on its own
LineMenu ==
    {IncludeMarker, StepsMarker, RefCurrent, RefParent, <<" ", "-", " ", "a">>,
     RefLoneCR, RefDot, RefTail, RefEmpty, RefRoot}
MenuTexts == {TextOf(ls) : ls \in SeqsUpTo(LineMenu, MaxLines)}

\* parse_includes_map over the texts and base directories of the model,
\* evaluated once
ScanTexts == SectionTexts \cup ShortTexts \cup {SecondEntryText}
ScanBases == {[abs |-> TRUE, comps |-> <<DirW>>],
              [abs |-> TRUE, comps |-> <<DirW, DirSub>>]}
IncludesTable ==
    [x \in ScanTexts \X ScanBases |-> parse_includes_map(x[1], x[2])] @@ <<>>

IncludesOf(input, base_path) ==
    IF <<input, base_path>> \in DOMAIN IncludesTable
    THEN IncludesTable[<<input, base_path>>]
    ELSE parse_includes_map(input, base_path)

(***************************************************************************)
(* Url                                                                     *)
(***************************************************************************)
\* Url::to_string, the key of the files HashMap
UrlToString(u) ==
    IF u.scheme = FileScheme
    THEN u.scheme \o <<":", "/", "/">> \o u.path
    ELSE u.scheme \o <<":">> \o u.path

\* Url::to_file_path
to_file_path(u) ==
    IF u.scheme = FileScheme /\ u.path # <<>> /\ u.path[1] = "/"
    THEN Some(PathFromStr(u.path))
    ELSE None

\* Url::from_file_path
from_file_path(p) ==
    IF p.abs THEN Some([scheme |-> FileScheme, path |-> PathToStr(p)]) ELSE None

(***************************************************************************)
(* The filesystem: the kind of every entry that may come and go, below a   *)
(* fixed set of directories.  Entries are named by their components from   *)
(* the root.                                                               *)
(***************************************************************************)
PathA == <<DirW, <<"a", ".", "g", "r", "l", "x">>>>
DirA == <<DirW, <<"a">>>>
InitA == <<DirW, <<"a">>, InitGrlx>>

StaticDirs == {<<>>, <<DirW>>, <<DirW, DirSub>>}

FsEntries == {PathA, DirA, InitA}

KindsOf(p) ==
    IF p = PathA THEN {"none", "file", "dir"}
    ELSE IF p = DirA THEN {"none", "dir"}
    ELSE {"none", "file"}

\* the kind of the entry named by the components cs
KindOf(fsys, cs) ==
    IF cs \in StaticDirs THEN "dir"
    ELSE IF cs \in DOMAIN fsys THEN fsys[cs]
    ELSE "none"

\* the kernel's walk along the components rest, starting in directory cur:
\* Some(components of the entry named) or None when a step leaves a
\* non-directory
RECURSIVE Walk(_, _, _)
Walk(fsys, cur, rest) ==
    IF rest = <<>> THEN Some(cur)
    ELSE IF KindOf(fsys, cur) # "dir" THEN None
    ELSE IF rest[1] = DotDot
         THEN Walk(fsys, SubSeq(cur, 1, Len(cur) - 1), Tail(rest))
         ELSE Walk(fsys, Append(cur, rest[1]), Tail(rest))

\* paths of the model have a root: documents are named by file URLs
Resolve(fsys, p) == Walk(fsys, <<>>, p.comps)

\* Path::exists
PathExists(fsys, p) ==
    LET r == Resolve(fsys, p) IN r.some /\ KindOf(fsys, r.val) # "none"

\* Path::is_dir
PathIsDir(fsys, p) ==
    LET r == Resolve(fsys, p) IN r.some /\ KindOf(fsys, r.val) = "dir"

\* std::fs::canonicalize: Some(absolute path without "..") or None for Err
canonicalize(fsys, p) ==
    LET r == Resolve(fsys, p)
    IN IF r.some /\ KindOf(fsys, r.val) # "none"
       THEN Some([abs |-> TRUE, comps |-> r.val])
       ELSE None

\* the filesystem after the entry cs (and what lies below it) is removed
Removed(fsys, cs) ==
    [q \in DOMAIN fsys |-> IF StartsWith(q, cs) THEN "none" ELSE fsys[q]]

(***************************************************************************)
(* State of event_loop and of its surroundings                             *)
(***************************************************************************)
VARIABLES
    files,    \* the files HashMap: document key -> (line number -> path)
    status,   \* "running", "failed" (event_loop returned Err), "panicked",
              \* "closed" (the receiver ended, event_loop returned Ok)
    fs,       \* the filesystem: entry -> "none" | "file" | "dir"
    msg,      \* the inbound message whose handling led to this state;
              \* kind "none" at the start and after a step of the filesystem.
              \* An open or change event also records whether it repeats the
              \* message before it (again), a definition request what the
              \* message before it was to its document (after)
    sent,     \* the messages sent while msg was handled
    shown     \* the documents whose editor view holds published diagnostics

vars == <<files, status, fs, msg, sent, shown>>

EmptyMap == [k \in {} |-> {}]

(***************************************************************************)
(* Diagnostics                                                             *)
(***************************************************************************)
FilePrefix == <<"F", "i", "l", "e", " ">>
NotExistSuffix ==
    <<" ", "d", "o", "e", "s", " ", "n", "o", "t", " ", "e", "x", "i", "s", "t">>

\* the column both ends of a diagnostic's range are put on
DiagnosticColumn == 200

missing_file_diagnostic(file_name, line) ==
    [range |-> [start |-> [line |-> line, character |-> DiagnosticColumn],
                end |-> [line |-> line, character |-> DiagnosticColumn]],
     severity |-> "ERROR",
     source |-> "grlx-lsp",
     message |-> FilePrefix \o PathFileName(file_name).val \o NotExistSuffix]

\* diagnostics that skip the existence check: one for every entry
MissingDiagnosticsUnchecked(fsys, mapping) ==
    {missing_file_diagnostic(mapping[n], n) : n \in DOMAIN mapping}

\* diagnostics with the check of the stem-named directory that the source
\* holds in a comment: none for an entry whose directory exists
MissingDiagnosticsDirAware(fsys, mapping) ==
    {missing_file_diagnostic(mapping[n], n) :
        n \in {m \in DOMAIN mapping :
                  /\ ~PathExists(fsys, mapping[m])
                  /\ ~PathExists(fsys,
                         [abs |-> mapping[m].abs,
                          comps |-> PathParent(mapping[m]).val.comps
                                       \o <<PathFileStem(mapping[m]).val>>])}}

\* the diagnostics of one document mapping; the Vec is collected in the
\* HashMap's iteration order, which no caller observes: a set
MissingDiagnostics(fsys, mapping) ==
    {missing_file_diagnostic(mapping[n], n) :
        n \in {m \in DOMAIN mapping : ~PathExists(fsys, mapping[m])}}

\* a generate_diagnostics that publishes an empty list as well
generate_diagnostics_always(fsys, fls, file_name) ==
    <<[method |-> "textDocument/publishDiagnostics",
       uri |-> file_name,
       diagnostics |-> MissingDiagnostics(fsys, fls[UrlToString(file_name)])]>>

\* a generate_diagnostics that sends its notification twice
generate_diagnostics_twice(fsys, fls, file_name) ==
    LET diagnostics == MissingDiagnostics(fsys, fls[UrlToString(file_name)])
        notification == [method |-> "textDocument/publishDiagnostics",
                         uri |-> file_name,
                         diagnostics |-> diagnostics]
    IN IF diagnostics # {} THEN <<notification, notification>> ELSE <<>>

\* generate_diagnostics: the messages it sends
generate_diagnostics(fsys, fls, file_name) ==
    LET diagnostics == MissingDiagnostics(fsys, fls[UrlToString(file_name)])
    IN IF diagnostics # {}
       THEN <<[method |-> "textDocument/publishDiagnostics",
               uri |-> file_name,
               diagnostics |-> diagnostics]>>
       ELSE <<>>

(***************************************************************************)
(* Document index                                                          *)
(***************************************************************************)
\* a HashMap::insert that keeps the entries of the lines v does not mention
MapInsertMerging(m, k, v) ==
    [x \in DOMAIN m \cup {k} |->
        IF x # k THEN m[x]
        ELSE IF k \notin DOMAIN m THEN v
        ELSE [n \in DOMAIN m[k] \cup DOMAIN v |->
                 IF n \in DOMAIN v THEN v[n] ELSE m[k][n]]]

\* an insert that leaves the entry of a key that is present alone
MapInsertIfAbsent(m, k, v) ==
    [x \in DOMAIN m \cup {k} |-> IF x \in DOMAIN m THEN m[x] ELSE v]

\* an insert into a map that holds the latest key only
MapInsertAlone(m, k, v) == [x \in {k} |-> v]

\* HashMap::insert
MapInsert(m, k, v) == [x \in DOMAIN m \cup {k} |-> IF x = k THEN v ELSE m[x]]

\* an update_files whose scan numbers its lines on from the entries the
\* index holds for the document
update_files_continuing(fls, file_name, file) ==
    LET key == UrlToString(file_name)
        includes == IncludesOf(file, PathParent(to_file_path(file_name).val).val)
        held == IF key \in DOMAIN fls THEN Cardinality(DOMAIN fls[key]) ELSE 0
    IN IF ~to_file_path(file_name).some THEN [ok |-> FALSE]
       ELSE [ok |-> TRUE,
             files |-> MapInsert(fls, key,
                          [n \in {i + held : i \in DOMAIN includes} |->
                              includes[n - held]])]

\* update_files: [ok |-> FALSE] when one of its unwraps panics
update_files(fls, file_name, file) ==
    LET fpath == to_file_path(file_name)
    IN IF ~fpath.some THEN [ok |-> FALSE]
       ELSE LET base == PathParent(fpath.val)
            IN IF ~base.some THEN [ok |-> FALSE]
               ELSE [ok |-> TRUE,
                     files |-> MapInsert(fls, UrlToString(file_name),
                                         IncludesOf(file, base.val))]

(***************************************************************************)
(* Definition resolver                                                     *)
(***************************************************************************)
\* parent of the candidate joined with its file stem
DirCandidate(path) ==
    PathJoin(PathParent(path).val,
             [abs |-> FALSE, comps |-> <<PathFileStem(path).val>>])

\* a resolution without the directory candidate
ResolutionTargetFileOnly(fsys, path) ==
    IF PathExists(fsys, path) THEN Some(path) ELSE None

\* a resolution without the existence checks
ResolutionTargetUnchecked(fsys, path) == Some(path)

\* the path handed to canonicalize: None when neither candidate exists
ResolutionTarget(fsys, path) ==
    IF PathExists(fsys, path) THEN Some(path)
    ELSE IF PathExists(fsys, DirCandidate(path)) THEN Some(DirCandidate(path))
    ELSE None

\* the path of the response, from the canonical target
CompletePath(fsys, canonical) ==
    IF PathIsDir(fsys, canonical)
    THEN PathJoin(canonical, PathFromStr(InitGrlx))
    ELSE canonical

\* init.grlx appended to a directory target before canonicalize
FinalPathAppendFirst(fsys, target) ==
    canonicalize(fsys, IF PathIsDir(fsys, target)
                       THEN PathJoin(target, PathFromStr(InitGrlx))
                       ELSE target)

\* canonicalize(path)? and the is_dir branch: None when canonicalize fails
FinalPath(fsys, target) ==
    LET complete_path == canonicalize(fsys, target)
    IN IF ~complete_path.some THEN None
       ELSE Some(CompletePath(fsys, complete_path.val))

DefinitionResponse(id, complete_path) ==
    [id |-> id,
     result |-> [uri |-> from_file_path(complete_path).val,
                 range |-> [start |-> [line |-> 0, character |-> 0],
                            end |-> [line |-> 0, character |-> 0]]],
     error |-> "None"]

(***************************************************************************)
(* event_loop: one action per kind of inbound message.  The outbound       *)
(* channel is the transport's unbounded queue and is taken to stay         *)
(* connected, so a send succeeds.                                          *)
(***************************************************************************)
Init ==
    /\ files = EmptyMap
    /\ status = "running"
    /\ fs = [p \in FsEntries |-> "none"]
    /\ msg = [kind |-> "none"]
    /\ sent = <<>>
    /\ shown = {}

\* msg is a didOpen or didChange whose params decode and, for a change,
\* whose content_changes has a first entry
IsSync(m) ==
    m.kind = "didOpen" \/ (m.kind = "didChange" /\ m.changes # <<>>)

\* the message handled last was this very open event
RepeatsOpen(doc, text) ==
    msg.kind = "didOpen" /\ msg.doc = doc /\ msg.text = text

\* the message handled last was this very change event
RepeatsChange(doc, changes) ==
    msg.kind = "didChange" /\ msg.doc = doc /\ msg.changes = changes

\* what the message handled last was to the document doc: an open or change
\* event of it or of another document, a close of it, or none of these
Preceding(doc) ==
    IF IsSync(msg) THEN (IF msg.doc = doc THEN "sync" ELSE "syncOther")
    ELSE IF msg.kind = "otherNotification" /\ msg.doc = doc THEN "close"
    ELSE "other"

\* the editor replaces what it shows for a document by what is published
ShownAfter(msgs) ==
    IF msgs = <<>> THEN shown
    ELSE IF msgs[1].diagnostics = {} THEN shown \ {msgs[1].uri}
    ELSE shown \cup {msgs[1].uri}

\* the body shared by didOpen and didChange once the params are decoded
OpenOrChange(file_name, file) ==
    LET updated == update_files(files, file_name, file)
    IN IF ~updated.ok
       THEN /\ status' = "panicked"
            /\ sent' = <<>>
            /\ UNCHANGED <<files, shown>>
       ELSE LET msgs == generate_diagnostics(fs, updated.files, file_name)
            IN /\ files' = updated.files
               /\ sent' = msgs
               /\ shown' = ShownAfter(msgs)
               /\ UNCHANGED status

\* textDocument/didOpen with decodable params
DidOpen(doc, text) ==
    /\ status = "running"
    /\ msg' = [kind |-> "didOpen", doc |-> doc, text |-> text,
               again |-> RepeatsOpen(doc, text)]
    /\ OpenOrChange(doc, text)
    /\ UNCHANGED fs

\* a change event that takes the text of its last entry
ChangeTextLast(changes) == changes[Len(changes)]

\* &changes[0].text
ChangeText(changes) == changes[1]

\* textDocument/didChange with decodable params: changes[0] panics on an
\* empty list
DidChange(doc, changes) ==
    /\ status = "running"
    /\ msg' = [kind |-> "didChange", doc |-> doc, changes |-> changes,
               again |-> RepeatsChange(doc, changes)]
    /\ IF changes = <<>>
       THEN /\ status' = "panicked"
            /\ sent' = <<>>
            /\ UNCHANGED <<files, shown>>
       ELSE OpenOrChange(doc, ChangeText(changes))
    /\ UNCHANGED fs

\* didOpen or didChange whose params do not decode: the if-let falls through
BadNotification(method) ==
    /\ status = "running"
    /\ msg' = [kind |-> "badNotification", method |-> method]
    /\ sent' = <<>>
    /\ UNCHANGED <<files, status, fs, shown>>

\* an index that drops the mapping of a document that is closed
IndexPrunedOnClose(fls, method, doc) ==
    [k \in DOMAIN fls \ {UrlToString(doc)} |-> fls[k]]

\* the index after the catch-all arm of the notification match: as it was
IndexAfterNotification(fls, method, doc) == fls

\* any other notification, textDocument/didClose among them
OtherNotification(method, doc) ==
    /\ status = "running"
    /\ msg' = [kind |-> "otherNotification", method |-> method, doc |-> doc]
    /\ sent' = <<>>
    /\ files' = IndexAfterNotification(files, method, doc)
    /\ UNCHANGED <<status, fs, shown>>

\* Message::Response
InboundResponse(id) ==
    /\ status = "running"
    /\ msg' = [kind |-> "response", id |-> id]
    /\ sent' = <<>>
    /\ UNCHANGED <<files, status, fs, shown>>

\* a request of any method but textDocument/definition
OtherRequest(id) ==
    /\ status = "running"
    /\ msg' = [kind |-> "otherRequest", id |-> id]
    /\ sent' = <<>>
    /\ UNCHANGED <<files, status, fs, shown>>

\* textDocument/definition whose params do not decode: cast returns
\* ExtractError::JsonError and the arm panics
BadDefinition(id) ==
    /\ status = "running"
    /\ msg' = [kind |-> "badDefinition", id |-> id]
    /\ status' = "panicked"
    /\ sent' = <<>>
    /\ UNCHANGED <<files, fs, shown>>

\* textDocument/definition with decodable params.  raced: another process
\* removes the resolution target between exists() and canonicalize().
Definition(id, doc, line, raced) ==
    /\ status = "running"
    /\ msg' = [kind |-> "definition", id |-> id, doc |-> doc, line |-> line,
               raced |-> raced, after |-> Preceding(doc)]
    /\ UNCHANGED <<files, shown>>
    /\ LET key == UrlToString(doc)
           found == key \in DOMAIN files /\ line \in DOMAIN files[key]
           target == IF found THEN ResolutionTarget(fs, files[key][line]) ELSE None
       IN IF ~target.some
          THEN /\ ~raced
               /\ sent' = <<>>
               /\ UNCHANGED <<status, fs>>
          ELSE LET fsys == IF raced
                           THEN Removed(fs, canonicalize(fs, target.val).val.comps)
                           ELSE fs
                   final == FinalPath(fsys, target.val)
               IN /\ fs' = fsys
                  /\ IF ~final.some
                     THEN /\ status' = "failed"
                          /\ sent' = <<>>
                     ELSE /\ sent' = <<DefinitionResponse(id, final.val)>>
                          /\ UNCHANGED status

\* the peer closes the channel: the receiver iterator ends, Ok(()) is returned
ChannelClosed ==
    /\ status = "running"
    /\ status' = "closed"
    /\ msg' = [kind |-> "eof"]
    /\ sent' = <<>>
    /\ UNCHANGED <<files, fs, shown>>

\* another process creates or removes a filesystem entry while the server
\* waits for a message; an entry below a directory exists only while the
\* directory does
FsChange(p, k) ==
    /\ status = "running"
    /\ k \in KindsOf(p)
    /\ k # fs[p]
    /\ p = InitA => fs[DirA] = "dir"
    /\ fs' = IF k = "none" THEN Removed(fs, p) ELSE [fs EXCEPT ![p] = k]
    /\ msg' = [kind |-> "none"]
    /\ sent' = <<>>
    /\ UNCHANGED <<files, status, shown>>

Next ==
    \/ \E doc \in Docs : \E text \in TextsOf(doc) : DidOpen(doc, text)
    \/ \E doc \in Docs : \E changes \in ChangeLists(doc) : DidChange(doc, changes)
    \/ \E method \in {"textDocument/didOpen", "textDocument/didChange"} :
          BadNotification(method)
    \/ \E doc \in FileDocs : OtherNotification("textDocument/didClose", doc)
    \/ \E id \in RequestIds : InboundResponse(id)
    \/ \E id \in RequestIds : OtherRequest(id)
    \/ \E id \in RequestIds : BadDefinition(id)
    \/ \E id \in RequestIds, doc \in FileDocs, line \in RequestLines, raced \in BOOLEAN :
          Definition(id, doc, line, raced)
    \/ ChannelClosed
    \/ \E p \in FsEntries, k \in {"none", "file", "dir"} : FsChange(p, k)

Spec == Init /\ [][Next]_vars

\* the scanner on its own: documents of up to MaxLines menu lines are opened
\* once, and then again with the same text
ScanNext ==
    \/ msg.kind = "none" /\ \E text \in MenuTexts : DidOpen(DocOne, text)
    \/ msg.kind = "didOpen" /\ DidOpen(DocOne, msg.text)

SpecScan == Init /\ [][ScanNext]_vars

(***************************************************************************)
(* Properties                                                              *)
(***************************************************************************)
\* the full text such an event carries
SyncText(m) == IF m.kind = "didOpen" THEN m.text ELSE m.changes[1]

HasDirectory(doc) ==
    to_file_path(doc).some /\ PathParent(to_file_path(doc).val).some

\* the directory that contains a document
ContainingDir(doc) == PathParent(to_file_path(doc).val).val

\* the scanner's result on the text an event carries
ScanOf(m) == parse_includes_map(SyncText(m), ContainingDir(m.doc))

\* C1: once an open or change event of a document has been handled, the index
\* entry of the document is the scanner's result on the event's full text,
\* with the document's directory as base; and an index entry appears or
\* changes only in the handling of such an event of that very document, so
\* the entry always is the scan of the most recent text, never a merge
C1_EntryIsScanOfEvent ==
    (status = "running" /\ IsSync(msg) /\ HasDirectory(msg.doc)) =>
        /\ UrlToString(msg.doc) \in DOMAIN files
        /\ files[UrlToString(msg.doc)] = ScanOf(msg)

C1_EntryChangesOnlyByEvent ==
    /\ DOMAIN files \subseteq DOMAIN files'
    /\ \A k \in DOMAIN files' :
          (k \notin DOMAIN files \/ files'[k] # files[k]) =>
              IsSync(msg') /\ k = UrlToString(msg'.doc)

C1_IndexReflectsLatestText ==
    [](C1_EntryIsScanOfEvent) /\ [][C1_EntryChangesOnlyByEvent]_vars

\* a change event has emptied a mapping that had an entry before
C1_Witness ==
    /\ status = "running"
    /\ msg.kind = "didChange"
    /\ msg.doc = DocOne
    /\ msg.changes # <<>>
    /\ DocOne \in shown
    /\ files[UrlToString(DocOne)] = EmptyMap

\* the loop can take a message from the receiver and handle it
CanHandleOpen == ENABLED (\E doc \in Docs : \E text \in TextsOf(doc) : DidOpen(doc, text))
CanHandleDefinition ==
    ENABLED (\E id \in RequestIds, doc \in FileDocs, line \in RequestLines :
                Definition(id, doc, line, FALSE))

\* C2: after a canonicalization failure in the handling of a navigation
\* request the loop still handles the messages that follow: open and change
\* events and navigation requests
C2_LoopSurvivesCanonicalizeFailure ==
    (msg.kind = "definition" /\ status = "failed") =>
        CanHandleOpen /\ CanHandleDefinition

\* C3: a malformed message (a definition request or an open or change
\* notification with undecodable params, a change with no content-change
\* entry) sends nothing and leaves the loop running for the next message
IsMalformed(m) ==
    \/ m.kind = "badDefinition"
    \/ m.kind = "badNotification"
    \/ m.kind = "didChange" /\ m.changes = <<>>

C3_MalformedIsIgnored ==
    IsMalformed(msg) => sent = <<>> /\ status = "running"

\* the diagnostics the handling of msg has published
PublishedDiagnostics == IF sent = <<>> THEN {} ELSE sent[1].diagnostics

\* the lines of a mapping whose candidate path does not exist
MissingLines(mapping) == {n \in DOMAIN mapping : ~PathExists(fs, mapping[n])}

LastComponent(path) == path.comps[Len(path.comps)]

\* d is the diagnostic of a missing file for line n and candidate path
IsMissingFileDiagnostic(d, n, path) ==
    /\ d.severity = "ERROR"
    /\ d.range.start.line = n
    /\ d.range.end = d.range.start
    /\ d.message = <<"F", "i", "l", "e", " ">> \o LastComponent(path)
                     \o <<" ", "d", "o", "e", "s", " ", "n", "o", "t", " ",
                          "e", "x", "i", "s", "t">>

\* C4: after an open or change event the diagnostics are those of the mapping
\* of the event's text under the filesystem as it is then: for an entry whose
\* candidate path does not exist exactly one Error diagnostic, on the entry's
\* line, zero-width, "File <final path component> does not exist"; for an
\* entry whose candidate path exists none; and none for any other line
C4_DiagnosticsPerMissingEntry ==
    (status = "running" /\ IsSync(msg) /\ HasDirectory(msg.doc)) =>
        LET mapping == ScanOf(msg)
        IN /\ \A n \in DOMAIN mapping :
                LET onLine == {d \in PublishedDiagnostics : d.range.start.line = n}
                IN IF PathExists(fs, mapping[n])
                   THEN onLine = {}
                   ELSE /\ Cardinality(onLine) = 1
                        /\ \A d \in onLine : IsMissingFileDiagnostic(d, n, mapping[n])
           /\ \A d \in PublishedDiagnostics : d.range.start.line \in DOMAIN mapping

\* a text with one reference that exists and one that does not
C4_Witness ==
    /\ status = "running"
    /\ IsSync(msg)
    /\ msg.doc = DocOne
    /\ SyncText(msg) = MixedText
    /\ fs[PathA] = "file"
    /\ MissingLines(ScanOf(msg)) = {2}
    /\ Cardinality(PublishedDiagnostics) = 1

\* C5: an open or change event sends one diagnostics-publish event, addressed
\* to the event's document and carrying a diagnostic for every missing entry,
\* when there is a missing entry, and sends nothing when there is none; no
\* step ever clears the diagnostics an editor shows for a document
C5_PublishOnlyWhenNonEmpty ==
    (status = "running" /\ IsSync(msg) /\ HasDirectory(msg.doc)) =>
        IF MissingLines(ScanOf(msg)) = {}
        THEN sent = <<>>
        ELSE /\ Len(sent) = 1
             /\ sent[1].method = "textDocument/publishDiagnostics"
             /\ sent[1].uri = msg.doc
             /\ Cardinality(sent[1].diagnostics)
                    = Cardinality(MissingLines(ScanOf(msg)))

C5_PublishNonEmptyOrNothing ==
    [](C5_PublishOnlyWhenNonEmpty) /\ [][shown \subseteq shown']_vars

\* a change without a missing include, after diagnostics were published for
\* the document: nothing is sent and the editor still shows them
C5_Witness ==
    /\ status = "running"
    /\ msg.kind = "didChange"
    /\ msg.changes # <<>>
    /\ MissingLines(ScanOf(msg)) = {}
    /\ sent = <<>>
    /\ msg.doc \in shown

\* the mapping entry a definition request m points at, if there is one
HasEntry(m) ==
    /\ UrlToString(m.doc) \in DOMAIN files
    /\ m.line \in DOMAIN files[UrlToString(m.doc)]

EntryPath(m) == files[UrlToString(m.doc)][m.line]

\* the candidate's parent joined with the candidate's file stem
StemSibling(path) ==
    [abs |-> path.abs,
     comps |-> PathParent(path).val.comps \o <<PathFileStem(path).val>>]

\* what a request resolves to: the candidate if it exists, else the
\* directory candidate if that exists
Target(path) ==
    IF PathExists(fs, path) THEN Some(path)
    ELSE IF PathExists(fs, StemSibling(path)) THEN Some(StemSibling(path))
    ELSE None

\* the file a target stands for: init.grlx below a directory, else itself
TargetFile(target) ==
    LET canonical == canonicalize(fs, target).val
    IN IF PathIsDir(fs, target)
       THEN [abs |-> TRUE, comps |-> Append(canonical.comps, InitGrlx)]
       ELSE canonical

\* the path a response names
ResponsePath == PathFromStr(sent[1].result.uri.path)

\* C6: a navigation response is sent only when the file it names, with
\* init.grlx appended for a directory target, can be canonicalized
C6_ResponseOnlyForCanonicalFile ==
    (msg.kind = "definition" /\ sent # <<>>) =>
        canonicalize(fs, ResponsePath).some

\* C6, amended: the resolution target is canonicalized before init.grlx is
\* appended.  A response is sent exactly when the target can be
\* canonicalized, and names the canonical target, or init.grlx below it for
\* a directory, whether or not that file exists; when canonicalization fails
\* the loop returns the error and nothing is sent
C6_TargetCanonicalizedBeforeInit ==
    (msg.kind = "definition" /\ HasEntry(msg)) =>
        /\ status = "failed" => sent = <<>>
        /\ sent # <<>> =>
              /\ Target(EntryPath(msg)).some
              /\ ResponsePath = TargetFile(Target(EntryPath(msg)).val)
        /\ (~msg.raced /\ Target(EntryPath(msg)).some) =>
              status = "running" /\ sent # <<>>

\* a response that names the init.grlx of a directory that has none
C6_Witness ==
    /\ msg.kind = "definition"
    /\ sent # <<>>
    /\ ResponsePath.comps[Len(ResponsePath.comps)] = InitGrlx
    /\ ~PathExists(fs, ResponsePath)

FileUrl(path) ==
    [scheme |-> <<"f", "i", "l", "e">>, path |-> PathToStr(path)]

\* C7: a navigation request on a line that has an entry resolves to the
\* candidate if it exists, else to the directory candidate if that exists,
\* and a directory to its init.grlx; the response is one location at the
\* resolved file, line 0, column 0, with the request's id
C7_ResolvesWithDirectoryFallback ==
    (msg.kind = "definition" /\ ~msg.raced /\ HasEntry(msg)
        /\ Target(EntryPath(msg)).some) =>
        sent = <<[id |-> msg.id,
                  result |-> [uri |-> FileUrl(TargetFile(Target(EntryPath(msg)).val)),
                              range |-> [start |-> [line |-> 0, character |-> 0],
                                         end |-> [line |-> 0, character |-> 0]]],
                  error |-> "None"]>>

\* the candidate /w/a.grlx is missing, the directory /w/a holds init.grlx
C7_Witness ==
    /\ msg.kind = "definition"
    /\ msg.doc = DocOne
    /\ HasEntry(msg)
    /\ EntryPath(msg).comps = PathA
    /\ fs[PathA] = "none"
    /\ fs[InitA] = "file"
    /\ sent # <<>>
    /\ sent[1].result.uri.path
          = <<"/","w","/","a","/","i","n","i","t",".","g","r","l","x">>

\* C8: a navigation request for a document without a mapping, on a line
\* without an entry, or on an entry neither of whose candidates exists sends
\* nothing and leaves the loop running, ready for the next message; no
\* navigation request changes the index
C8_NothingToResolve ==
    (msg.kind = "definition" /\ ~msg.raced
        /\ (~HasEntry(msg) \/ ~Target(EntryPath(msg)).some)) =>
        sent = <<>> /\ status = "running"

C8_SilentWhenUnresolvable ==
    [](C8_NothingToResolve) /\ [][msg'.kind = "definition" => files' = files]_vars

\* an entry neither of whose candidates exists
C8_Witness ==
    /\ msg.kind = "definition"
    /\ HasEntry(msg)
    /\ ~PathExists(fs, EntryPath(msg))
    /\ ~PathExists(fs, StemSibling(EntryPath(msg)))
    /\ sent = <<>>
    /\ status = "running"

\* C9: a navigation request that follows an open or change event of its
\* document, on a line for which the event's text has no reference, gets no
\* response, whatever earlier versions had on that line
C9_RequestAfterEvent ==
    (/\ status = "running" /\ IsSync(msg) /\ HasDirectory(msg.doc)
     /\ msg'.kind = "definition"
     /\ msg'.doc = msg.doc
     /\ msg'.line \notin DOMAIN ScanOf(msg)) => sent' = <<>>

C9_NoStaleNavigation == [][C9_RequestAfterEvent]_vars

\* line 1 had a reference to /w/a.grlx in an earlier version (its diagnostic
\* was published), the file exists now, the current version has no entry
C9_Witness ==
    /\ msg.kind = "definition"
    /\ msg.doc = DocOne
    /\ msg.line = 1
    /\ DocOne \in shown
    /\ fs[PathA] = "file"
    /\ UrlToString(DocOne) \in DOMAIN files
    /\ 1 \notin DOMAIN files[UrlToString(DocOne)]
    /\ sent = <<>>

\* the lines of the text of msg, and the numbers of its mapping
MsgLines == StrLines(SyncText(msg))
MsgEntries == DOMAIN files[UrlToString(msg.doc)]
IsInclude(i) == StartsWith(MsgLines[i], IncludeMarker)
IsSteps(i) == StartsWith(MsgLines[i], StepsMarker)

\* C10: no entry for a line before the first include: line, and none for a
\* line at or after a steps: line, wherever that steps: line is
C10_NoEntryOutsideMarkers ==
    (status = "running" /\ IsSync(msg)) =>
        \A n \in MsgEntries :
            /\ \E i \in 1..(n + 1) : IsInclude(i)
            /\ \A j \in 1..(n + 1) : ~IsSteps(j)

\* C10, amended: no entry for a line before the first include: line, and
\* none for a line at or after the first steps: line that comes after that
\* include: line; a steps: line before it ends nothing
C10_NoEntryOutsideWindow ==
    (status = "running" /\ IsSync(msg)) =>
        \A n \in MsgEntries :
            \E i \in 1..(n + 1) :
                /\ IsInclude(i)
                /\ \A h \in 1..(i - 1) : ~IsInclude(h)
                /\ \A j \in i..(n + 1) : ~IsSteps(j)

\* a line that matches the grammar lies outside the window and has no entry,
\* while a line inside has one
C10_Witness ==
    /\ status = "running"
    /\ IsSync(msg)
    /\ MsgEntries # {}
    /\ \E i \in 1..Len(MsgLines) :
          parse_include_line(MsgLines[i]).ok /\ (i - 1) \notin MsgEntries

\* line i of the text of msg lies in the include window: at or after the
\* first include: line, with no steps: line from there to i
InWindow(i) ==
    \E s \in 1..i :
        /\ IsInclude(s)
        /\ \A h \in 1..(s - 1) : ~IsInclude(h)
        /\ \A j \in s..i : ~IsSteps(j)

\* two leading spaces, a dash, at least one whitespace character
MatchesGrammar(line) ==
    /\ Len(line) >= 4
    /\ line[1] = " " /\ line[2] = " " /\ line[3] = "-"
    /\ line[4] \in MultiSpace

\* C11: within the include window a line has an entry, under its 0-based
\* number, if and only if it has two leading spaces, a dash and at least one
\* whitespace character, whatever the rest of the line is; a line that does
\* not match has no diagnostic either
C11_EntryIffGrammar ==
    (status = "running" /\ IsSync(msg)) =>
        /\ \A i \in 1..Len(MsgLines) :
              InWindow(i) => ((i - 1) \in MsgEntries <=> MatchesGrammar(MsgLines[i]))
        /\ \A d \in PublishedDiagnostics :
              MatchesGrammar(MsgLines[d.range.start.line + 1])

\* the reference text of a line that matches the grammar: what follows the
\* whitespace run after the dash
ReferenceText(line) ==
    LET tail == Drop(line, 3) IN Drop(tail, PrefixLen(tail, MultiSpace))

\* the module name of a reference text: the alphanumeric run after a leading
\* dot when there is one, else the whole text
ModuleName(ref) ==
    IF ref # <<>> /\ ref[1] = "." /\ PrefixLen(Drop(ref, 1), AlphaNumeric) > 0
    THEN SubSeq(ref, 2, 1 + PrefixLen(Drop(ref, 1), AlphaNumeric))
    ELSE ref

\* C12: the candidate path of every entry is the document's directory joined
\* with the module name followed by ".grlx", where the module name is the
\* alphanumeric run right after a leading dot of the reference text when that
\* run is not empty, and the whole reference text otherwise; the join is
\* that of PathBuf::join, in which a name that starts at the root stands alone
C12_CandidateFromModuleName ==
    (status = "running" /\ IsSync(msg)) =>
        \A n \in MsgEntries :
            files[UrlToString(msg.doc)][n]
                = PathJoin(ContainingDir(msg.doc),
                           PathFromStr(ModuleName(ReferenceText(MsgLines[n + 1]))
                                           \o GrlxExt))

\* ".a/b" has given /w/a.grlx and a lone "." has given /w/..grlx
C12_Witness ==
    /\ status = "running"
    /\ IsSync(msg)
    /\ \E n, m \in MsgEntries :
          /\ MsgLines[n + 1] = RefTail
          /\ files[UrlToString(msg.doc)][n].comps = PathA
          /\ MsgLines[m + 1] = RefDot
          /\ files[UrlToString(msg.doc)][m].comps = <<DirW, <<".">> \o GrlxExt>>

\* a step that does not handle a well-formed open or change event leaves
\* the whole index as it was
C13_OnlySyncChangesIndex == ~IsSync(msg') => files' = files

\* a navigation request that follows the close of its document, on a line
\* whose entry resolves, is answered from the mapping the document had
C13_AnsweredFromClosed ==
    (msg.kind = "definition" /\ msg.after = "close" /\ ~msg.raced
        /\ HasEntry(msg) /\ Target(EntryPath(msg)).some) =>
        /\ Len(sent) = 1
        /\ sent[1].id = msg.id
        /\ ResponsePath = TargetFile(Target(EntryPath(msg)).val)

\* C13: the index changes only in the handling of a well-formed open or
\* change event; navigation requests, responses, close and other
\* notifications, other requests and malformed messages leave all of it
\* unchanged, so the mapping of a closed document stays and a navigation
\* request on the closed document is answered from it
C13_IndexChangedOnlyBySync ==
    [](C13_AnsweredFromClosed) /\ [][C13_OnlySyncChangesIndex]_vars

\* a request on a document right after its close has been answered
C13_Witness ==
    /\ msg.kind = "definition"
    /\ msg.after = "close"
    /\ HasEntry(msg)
    /\ Len(sent) = 1
    /\ sent[1].id = msg.id

\* C14: after a change event with several content-change entries the mapping
\* of the document is the scan of the first entry's text and the diagnostics
\* published are those of that mapping, as for a change event that carries
\* the first entry alone
C14_FirstEntryOnly ==
    (status = "running" /\ msg.kind = "didChange" /\ Len(msg.changes) > 1
        /\ HasDirectory(msg.doc)) =>
        LET first == parse_includes_map(msg.changes[1], ContainingDir(msg.doc))
        IN /\ files[UrlToString(msg.doc)] = first
           /\ {d.range.start.line : d \in PublishedDiagnostics}
                  = MissingLines(first)
           /\ sent # <<>> => sent[1].uri = msg.doc

\* the first entry has a reference whose file is missing, the second has none
C14_Witness ==
    /\ status = "running"
    /\ msg.kind = "didChange"
    /\ Len(msg.changes) = 2
    /\ files[UrlToString(msg.doc)]
          # parse_includes_map(msg.changes[2], ContainingDir(msg.doc))
    /\ {d.range.start.line : d \in PublishedDiagnostics} = {1}

\* the handling of an open or change event that repeats the message before
\* it leaves the whole index as the first delivery left it
C15_RepeatLeavesIndex ==
    (IsSync(msg') /\ msg'.again /\ status' = "running") => files' = files

\* after the second delivery the mapping is the scan of the event's text,
\* whatever was handled before the first
C15_RepeatIsScan ==
    (status = "running" /\ IsSync(msg) /\ msg.again) =>
        files[UrlToString(msg.doc)] = ScanOf(msg)

\* C15: the scan of a text with a base directory depends on nothing else, and
\* the same open or change event delivered twice in a row leaves the index
\* exactly as after the first delivery, whatever was handled before
C15_ScanIdempotent ==
    [](C15_RepeatIsScan) /\ [][C15_RepeatLeavesIndex]_vars

\* a change event with a reference has been delivered twice in a row
C15_Witness ==
    /\ status = "running"
    /\ msg.kind = "didChange"
    /\ msg.again
    /\ files[UrlToString(msg.doc)] # EmptyMap
    /\ DOMAIN files = {UrlToString(DocOne), UrlToString(DocTwo)}

\* an outbound message is a diagnostics notification or a response
IsPublish(m) == "method" \in DOMAIN m /\ m.method = "textDocument/publishDiagnostics"
IsResponse(m) == "id" \in DOMAIN m

\* C16: the handling of one inbound message sends at most one message: a
\* diagnostics notification only for an open or change event and addressed to
\* the event's document, a response only for a navigation request and with
\* the request's id; every other kind of message sends nothing
C16_AtMostOneOutbound ==
    /\ Len(sent) <= 1
    /\ sent # <<>> =>
          \/ /\ IsSync(msg)
             /\ IsPublish(sent[1])
             /\ sent[1].uri = msg.doc
          \/ /\ msg.kind = "definition"
             /\ IsResponse(sent[1])
             /\ sent[1].id = msg.id

\* the request r2 has been answered for a document whose diagnostics were
\* published by an earlier event
C16_Witness ==
    /\ msg.kind = "definition"
    /\ msg.id = "r2"
    /\ msg.doc \in shown
    /\ Len(sent) = 1
    /\ sent[1].id = "r2"

\* the candidate file of an entry is missing while the directory named by
\* its stem exists
OnlyDirectoryExists(path) ==
    ~PathExists(fs, path) /\ PathIsDir(fs, StemSibling(path))

\* an open or change event publishes the diagnostic of such an entry
C17_DiagnosticDespiteDirectory ==
    (status = "running" /\ IsSync(msg) /\ HasDirectory(msg.doc)) =>
        \A n \in DOMAIN ScanOf(msg) :
            OnlyDirectoryExists(ScanOf(msg)[n]) =>
                /\ Len(sent) = 1
                /\ sent[1].uri = msg.doc
                /\ \E d \in sent[1].diagnostics :
                      IsMissingFileDiagnostic(d, n, ScanOf(msg)[n])

\* a navigation request on such an entry is answered with the init.grlx of
\* the directory
C17_NavigationThroughDirectory ==
    (msg.kind = "definition" /\ ~msg.raced /\ HasEntry(msg)
        /\ OnlyDirectoryExists(EntryPath(msg))) =>
        /\ status = "running"
        /\ Len(sent) = 1
        /\ sent[1].id = msg.id
        /\ ResponsePath
              = [abs |-> TRUE,
                 comps |-> Append(canonicalize(fs, StemSibling(EntryPath(msg))).val.comps,
                                  InitGrlx)]

\* C17: diagnostics do not look at the directory candidate: for an entry
\* whose candidate file is missing while the directory named by its stem
\* exists, an open or change event publishes the "does not exist" Error
\* diagnostic of the entry's line, and a navigation request on that line under
\* the same filesystem is answered with the init.grlx of that directory
C17_DiagnosticsIgnoreDirectory ==
    C17_DiagnosticDespiteDirectory /\ C17_NavigationThroughDirectory

\* right after an event of /w/one.grlx whose diagnostics were published, with
\* /w/a.grlx missing and /w/a a directory, the request on the line of the
\* reference has been answered with /w/a/init.grlx
C17_Witness ==
    /\ msg.kind = "definition"
    /\ msg.after = "sync"
    /\ ~msg.raced
    /\ msg.doc = DocOne
    /\ DocOne \in shown
    /\ HasEntry(msg)
    /\ EntryPath(msg).comps = PathA
    /\ fs[PathA] = "none"
    /\ fs[DirA] = "dir"
    /\ Len(sent) = 1
    /\ ResponsePath.comps = InitA

\* the handling of an open or change event of a document leaves the entry
\* of every other document as it was, and adds no entry but its own
C18_OtherEntriesUnchanged ==
    IsSync(msg') =>
        /\ \A k \in DOMAIN files \ {UrlToString(msg'.doc)} :
              k \in DOMAIN files' /\ files'[k] = files[k]
        /\ DOMAIN files' \subseteq DOMAIN files \cup {UrlToString(msg'.doc)}

\* a navigation request that follows an event of another document gets what
\* the mapping of its own document and the filesystem give
C18_NavigationFromOwnMapping ==
    (msg.kind = "definition" /\ msg.after = "syncOther" /\ ~msg.raced) =>
        IF HasEntry(msg) /\ Target(EntryPath(msg)).some
        THEN /\ Len(sent) = 1
             /\ sent[1].id = msg.id
             /\ sent[1].result.uri = FileUrl(TargetFile(Target(EntryPath(msg)).val))
        ELSE sent = <<>>

\* C18: an open or change event of a document A leaves the mapping of every
\* other document B unchanged, so after events of A the entry of B and the
\* answer to a navigation request on B are what they are without them
C18_DocumentsAreIndependent ==
    [](C18_NavigationFromOwnMapping) /\ [][C18_OtherEntriesUnchanged]_vars

\* a request on /w/sub/two.grlx right after an event of another document has
\* been answered, with /w/one.grlx in the index
C18_Witness ==
    /\ msg.kind = "definition"
    /\ msg.after = "syncOther"
    /\ msg.doc = DocTwo
    /\ UrlToString(DocOne) \in DOMAIN files
    /\ files[UrlToString(DocOne)] # EmptyMap
    /\ HasEntry(msg)
    /\ Len(sent) = 1

====
